---- MODULE Spec2Model ----
(***************************************************************************)
(* State-machine model of the audio session orchestrator                   *)
(* (src/src/core/stt/AudioSessionManager.ts) with its collaborators: the   *)
(* capture device (getUserMedia / AudioContext), the transcription service *)
(* (STTService, WebSpeechService) and the voice-activity detector.         *)
(*                                                                         *)
(* JavaScript runs each callback to completion, so one action is the code  *)
(* between two awaits of a collaborator's promise.  A call of an async     *)
(* method in progress is a record whose pc names the await it is suspended *)
(* at; the calls in progress form a bag.                                   *)
(***************************************************************************)
EXTENDS Integers, Sequences, FiniteSets, Bags, TLC

(* ---------------- bounds of the model ---------------- *)
MaxTime == 2         \* ticks of the wall clock
MaxFrames == 2       \* onaudioprocess events accepted by recording sessions
MaxInFlight == 2     \* frame handlers suspended at an await at the same time
MaxTimers == 2       \* setTimeout callbacks pending at the same time
MaxStartCalls == 1   \* startSession calls suspended at an await at the same time
MaxStarts == 2       \* startSession calls per session that pass the guards
MaxStopCalls == 2    \* stopSession calls suspended at an await at the same time
MaxSessionFrames == 3  \* onaudioprocess events accepted when two sessions only handle frames

MaxSamples == 3          \* samples of a frame handed to normalize
MaxDetectorFrames == 2   \* processFrame calls of a detector fed frames of any kind
MaxSequenceFrames == 5   \* processFrame calls of a detector fed a sequence of frames
MaxDetectorCalls == 2    \* other calls of the detector's methods in such a run
MaxHistoryFrames == 102  \* processFrame calls of a detector in a long run
MaxPairFrames == 12      \* processFrame calls of two detectors fed the same long run

(* ---------------- configuration values ---------------- *)
HistoryLimit == 100  \* entries kept in the detector's energy history
HopSize == 15        \* vadConfig.hopSize, the milliseconds accounted per frame
FramePeriod == 92    \* milliseconds of audio in one onaudioprocess event: 4096 samples at 44100 Hz

\* the VADConfig of main.ts 49-58, with sensitivity 1.0 in place of 0.8: threshold
\* in millionths, sensitivity in tenths, hopSize in milliseconds
VadConfig == [threshold |-> 10000, sensitivity |-> 10, adaptiveThreshold |-> TRUE, hopSize |-> HopSize]

\* the AudioConfig of main.ts 37-47: the fields process reads; targetVolume is a
\* fraction <<numerator, denominator>>
AudioConfig ==
  [enableNormalization |-> TRUE, enableNoiseReduction |-> TRUE, targetVolume |-> <<7, 10>>,
   sampleRate |-> 44100]

SessionSeq == <<"a", "b">>   \* the ids generateSessionId hands out, in order
SessionIds == {SessionSeq[i] : i \in 1..Len(SessionSeq)}
UnknownId == "zz"
AllIds == SessionIds \cup {UnknownId}
None == "none"
NoTime == -1
NoTimer == 0

TimerIds == 1..MaxTimers

\* The runs explored.  Every run has one session, one startSession call, one
\* stopSession call at a time and one frame, all within one reading of the clock;
\* each profile raises one of these to its bound.
MinProfile ==
  [sessions |-> 1, starts |-> 1, startSlots |-> 1, stops |-> 1,
   frames |-> 1, inFlight |-> 1, time |-> 0, paced |-> FALSE,
   inTurn |-> FALSE, pauses |-> FALSE,
   vadConfig |-> VadConfig, peerConfigs |-> {}, vadFrames |-> 0, vadCalls |-> 0, ramp |-> FALSE,
   audioConfigs |-> {AudioConfig}, samples |-> 0]

Profiles ==
  { [MinProfile EXCEPT !.starts = MaxStarts],
    [MinProfile EXCEPT !.starts = MaxStartCalls, !.startSlots = MaxStartCalls],
    [MinProfile EXCEPT !.stops = MaxStopCalls],
    [MinProfile EXCEPT !.frames = MaxFrames],
    [MinProfile EXCEPT !.stops = 0, !.frames = MaxInFlight, !.inFlight = MaxInFlight],
    [MinProfile EXCEPT !.time = MaxTime] }

\* Runs in which the clock advances while several frames are handled, the frames
\* of a session being delivered no faster than the audio they hold.
ClockProfiles ==
  { [MinProfile EXCEPT !.frames = MaxFrames, !.time = MaxTime, !.paced = TRUE] }

\* Runs of the two sessions a and b through their whole life cycle.
SessionProfiles == { [MinProfile EXCEPT !.sessions = Len(SessionSeq)] }

\* Runs of the two sessions a and b in which the sessions are started and handle
\* frames, and are not stopped.
VerdictProfiles ==
  { [MinProfile EXCEPT !.sessions = Len(SessionSeq), !.stops = 0, !.frames = MaxSessionFrames] }

\* Runs of one session that handles frames and is paused and resumed.
PauseProfiles == { [MinProfile EXCEPT !.frames = MaxFrames, !.time = 1, !.pauses = TRUE] }

\* Runs of the two sessions a and b one after the other: b is created when a has
\* ended and nothing of a is in progress any more.
SuccessionProfiles ==
  { [MinProfile EXCEPT !.sessions = Len(SessionSeq), !.frames = MaxFrames, !.inTurn = TRUE] }

\* the configs that differ from VadConfig in threshold or adaptiveThreshold at most
PeerConfigs ==
  {[VadConfig EXCEPT !.threshold = t, !.adaptiveThreshold = a] :
     t \in {VadConfig.threshold, 3 * VadConfig.threshold}, a \in BOOLEAN}

\* Runs of two detectors that get the same calls, the second constructed with one
\* of PeerConfigs: a few frames of any kind with other calls in between, and a
\* run long enough for the adaptive threshold to be computed.
PairProfiles ==
  { [MinProfile EXCEPT !.peerConfigs = PeerConfigs, !.vadFrames = MaxDetectorFrames,
                       !.vadCalls = MaxDetectorCalls],
    [MinProfile EXCEPT !.peerConfigs = PeerConfigs, !.vadFrames = MaxPairFrames,
                       !.vadCalls = 1, !.ramp = TRUE] }

\* Runs of an audio processor, constructed with any of these configs.
ProcessorProfiles ==
  { [MinProfile EXCEPT !.samples = MaxSamples,
                       !.audioConfigs =
                          {[AudioConfig EXCEPT !.enableNormalization = n,
                                               !.enableNoiseReduction = r,
                                               !.targetVolume = t] :
                             n \in BOOLEAN, r \in BOOLEAN, t \in {<<1, 2>>, <<7, 10>>, <<1, 1>>}}] }

\* Runs of a detector: a few frames of any kind with other calls in between, a
\* longer sequence of frames, and a long run of frames with one other call that
\* fills the energy history.
DetectorProfiles ==
  { [MinProfile EXCEPT !.vadFrames = MaxDetectorFrames, !.vadCalls = MaxDetectorCalls],
    [MinProfile EXCEPT !.vadFrames = MaxSequenceFrames],
    [MinProfile EXCEPT !.vadFrames = MaxHistoryFrames, !.vadCalls = 1, !.ramp = TRUE] }

(* ---------------- rational numbers (durations after finalization) ------ *)
RECURSIVE GCD(_, _)
GCD(x, y) == IF y = 0 THEN x ELSE GCD(y, x % y)

Rat(n, d) == LET g == GCD(n, d) IN IF g = 0 THEN <<0, 1>> ELSE <<n \div g, d \div g>>
RatInt(n) == <<n, 1>>
RatAdd(p, q) == Rat(p[1] * q[2] + q[1] * p[2], p[2] * q[2])
RatLeq(p, q) == p[1] * q[2] <= q[1] * p[2]

(* ---------------- session records ---------------- *)
InitialStatistics ==
  [totalDuration |-> 0, speakingDuration |-> RatInt(0), silenceDuration |-> RatInt(0),
   chunksProcessed |-> 0, errorCount |-> 0, silencePeriods |-> 0]

NewSession(autoStop, now) ==
  [isActive |-> FALSE, isRecording |-> FALSE, autoStop |-> autoStop,
   startTime |-> now, endTime |-> NoTime,
   audioChunks |-> 0, transcripts |-> <<>>, statistics |-> InitialStatistics]

NoCall == [op |-> None, sid |-> None, result |-> None, at |-> None, from |-> None, was |-> None]

(* ---------------- the voice activity detector: construction ---------------- *)
\* VoiceActivityDetector constructor 46-57 and the field initialisers 38-44.
\* Energies, thresholds, rates and probabilities are held in thousandths.
\* a field that is null or an object is held as a sequence of no or one element
NoResult == <<>>

NewDetector(config) ==
  [config |-> config,
   frameIndex |-> 0,
   state |-> [isSpeech |-> FALSE, speechStartTime |-> 0, speechEndTime |-> 0,
              totalSpeechDuration |-> 0, totalSilenceDuration |-> 0,
              speechFrames |-> 0, silenceFrames |-> 0],
   energyHistory |-> <<>>,
   baselineEnergy |-> 0,
   lastVADResult |-> NoResult]

NoReturn == [op |-> None, value |-> None]

\* AudioProcessorImpl constructor 61-65 and the field initialiser 59
NewProcessor(config) == [config |-> config, noiseProfile |-> <<>>]

VARIABLES
  sessions,            \* Map<string, AudioSession>
  mediaStream,         \* the manager's capture stream: the session it was acquired for, or None
  streamLive,          \* per acquired stream: have its tracks not been stopped
  activeAudioContext,  \* the manager's audio context: the session it was created for, or None
  ctx,                 \* per session: state of the audio context created for it
  silenceTimer,        \* the manager's timer handle: a timer id or NoTimer
  timers,              \* pending setTimeout callbacks: timer id -> session it closes over
  lastVADResult,       \* the manager's last verdict: "null", "speech" or "silence"
  vad,                 \* the detector's counters: frameIndex, speechFrames
  stt,                 \* the transcription collaborator's activeSession: "null", "active", "inactive"
  starts,              \* bag of startSession calls in progress: [pc, sid, ok]
  stops,               \* bag of stopSession calls in progress: [pc, sid, from, ok, was]
  frames,              \* bag of onaudioprocess handlers in progress: [pc, sid, frame, ok]
  clock,               \* wall clock (Date.now())
  delivered,           \* number of onaudioprocess events accepted so far
  ended,               \* per session: number of onSessionEnd notifications
  captures,            \* per session: number of getUserMedia requests
  startCalls,          \* per session: number of startSession calls that passed the guards
  verdict,             \* per session: the verdict of the last frame it handled, or "null"
  paused,              \* per session: pauseSession took effect and resumeSession has not since
                       \* (recorded in the runs of PauseProfiles)
  limit,               \* the profile of the run (never changes)
  done,                \* the call that completed in the step into this state, or NoCall
  emitted,             \* the session callbacks invoked in the step into this state, in order
  det,                 \* a VoiceActivityDetector: its private fields
  twin,                \* a detector constructed when det was last reset: <<>> or <<detector>>
  peer,                \* a second detector that gets the calls det gets: <<>> or <<detector>>
  arrived,             \* the energies of the frames det processed since its history was last emptied
  results,             \* the results processFrame returned since det was constructed or last reset
  returned,            \* the last call of a method of det and the value it returned
  fed,                 \* the calls made on det in this run: processFrame calls, other calls
  ap,                  \* an AudioProcessorImpl: its config and its noise profile
  out                  \* the last call of a method of ap: the argument and the value returned

vars == <<sessions, mediaStream, streamLive, activeAudioContext, ctx, silenceTimer, timers,
          lastVADResult, vad, stt, starts, stops, frames, clock, delivered, ended,
          captures, startCalls, verdict, paused, limit, done, emitted,
          det, twin, peer, arrived, results, returned, fed, ap, out>>

processorVars == <<ap, out>>

detectorVars == <<det, twin, peer, arrived, results, returned, fed>>
managerVars == <<sessions, mediaStream, streamLive, activeAudioContext, ctx, silenceTimer,
                 timers, lastVADResult, vad, stt, starts, stops, frames, clock, delivered,
                 ended, captures, startCalls, verdict, paused, limit, done, emitted>>

Known == DOMAIN sessions

\* the manager after construction, in a run of one of the profiles
Constructed(profiles) ==
  /\ limit \in profiles
  /\ sessions = <<>>
  /\ mediaStream = None
  /\ streamLive = [s \in SessionIds |-> FALSE]
  /\ activeAudioContext = None
  /\ ctx = [s \in SessionIds |-> "none"]
  /\ silenceTimer = NoTimer
  /\ timers = [t \in TimerIds |-> None]
  /\ lastVADResult = "null"
  /\ vad = [frameIndex |-> 0, speechFrames |-> 0]
  /\ stt = "null"
  /\ starts = EmptyBag
  /\ stops = EmptyBag
  /\ frames = EmptyBag
  /\ clock = 0
  /\ delivered = 0
  /\ ended = [s \in SessionIds |-> 0]
  /\ captures = [s \in SessionIds |-> 0]
  /\ startCalls = [s \in SessionIds |-> 0]
  /\ verdict = [s \in SessionIds |-> "null"]
  /\ paused = [s \in SessionIds |-> FALSE]
  /\ done = NoCall
  /\ emitted = <<>>
  /\ det = NewDetector(limit.vadConfig)
  /\ twin = <<>>
  /\ peer \in IF limit.peerConfigs = {} THEN {<<>>}
              ELSE {<<NewDetector(config)>> : config \in limit.peerConfigs}
  /\ arrived = <<>>
  /\ results = <<>>
  /\ returned = NoReturn
  /\ fed = [frames |-> 0, others |-> 0]
  /\ ap \in {NewProcessor(config) : config \in limit.audioConfigs}
  /\ out = [op |-> None, given |-> <<>>, value |-> <<>>]

Init == Constructed(Profiles)

(* ---------------- helpers ---------------- *)
\* was: the lifecycle state of the session when the call was made
Completed(op, id, result, at, from, was) ==
  [op |-> op, sid |-> id, result |-> result, at |-> at, from |-> from, was |-> was]

\* session.onX?.(...): the callback named cb of session id is invoked
Emit(cb, id) == [cb |-> cb, sid |-> id]

Put(bag, call) == bag (+) SetToBag({call})
Take(bag, call) == bag (-) SetToBag({call})
Move(bag, call, next) == Put(Take(bag, call), next)
Calls(bag) == BagToSet(bag)
Added(before, after) == {r \in Calls(after) : CopiesIn(r, after) > CopiesIn(r, before)}

Starting(id) == \E r \in Calls(starts) : r.sid = id
Active(id) == id \in Known /\ sessions[id].isActive /\ ~Starting(id)
Finalized(id) == id \in Known /\ sessions[id].endTime # NoTime /\ ~sessions[id].isActive
Lifecycle(id) ==
  IF Active(id) THEN "Active"
  ELSE IF Finalized(id) /\ ~Starting(id) THEN "Stopped" ELSE "Other"

FreeTimers == {t \in TimerIds : timers[t] = None}
FirstFreeTimer == CHOOSE t \in FreeTimers : \A u \in FreeTimers : t <= u

\* clearTimeout(this.silenceTimer): a handle of a timer that already fired clears nothing
clearTimeout(handle, pending) ==
  IF handle # NoTimer THEN [pending EXCEPT ![handle] = None] ELSE pending

(* ---------------- the transcription collaborator ---------------- *)
\* WebSpeechService.startSession at its call: <<accepted, activeSession afterwards>>
SttStartSession(cur) ==
  IF cur = "active" THEN {<<FALSE, cur>>}
  ELSE {<<TRUE, "active">>, <<FALSE, "null">>}

\* WebSpeechService.stopSession(sessionId) at its call.  It rejects when it has no
\* activeSession or when sessionId is not the id of its activeSession; whether the
\* id the manager hands over is the collaborator's own handle is the collaborator's
\* choice (WebSpeechService never accepts it: its ids are "webspeech_...").
SttStopSession(cur) ==
  IF cur = "null" THEN {<<FALSE, cur>>}
  ELSE {<<FALSE, cur>>, <<TRUE, "inactive">>}

(* ---------------- createSession / startSession ---------------- *)
\* as StartGuardFails, without the check of lines 138-140
StartGuardFails_NoActiveCheck(id) == id \notin Known

\* startSession, lines 133-140: the guards
StartGuardFails(id) == id \notin Known \/ sessions[id].isActive

\* startSession, lines 143-150 up to the await of getUserMedia (startRecording 209)
StartSessionBegin(id, base) ==
  /\ BagCardinality(starts) < limit.startSlots
  /\ sessions' = [base EXCEPT ![id].isActive = TRUE]
  /\ starts' = Put(starts, [pc |-> "getUserMedia", sid |-> id, ok |-> TRUE])
  /\ captures' = [captures EXCEPT ![id] = @ + 1]
  /\ startCalls' = [startCalls EXCEPT ![id] = @ + 1]

\* as StartCatch, without line 163
StartCatch_KeepsActive(sess) == [sess EXCEPT !.isRecording = FALSE]

\* the catch block of startSession, lines 162-167 (and of startRecording, 215-219)
StartCatch(sess) == [sess EXCEPT !.isActive = FALSE, !.isRecording = FALSE]

\* every session has ended and no call, handler or timer of the manager is pending
Quiet ==
  /\ \A id \in Known : sessions[id].endTime # NoTime /\ ~sessions[id].isActive
  /\ starts = EmptyBag /\ stops = EmptyBag /\ frames = EmptyBag
  /\ \A t \in TimerIds : timers[t] = None

createSession(autoStart, autoStop) ==
  /\ Cardinality(Known) < limit.sessions
  /\ limit.inTurn => Quiet
  /\ LET id == SessionSeq[Cardinality(Known) + 1]
         base == sessions @@ (id :> NewSession(autoStop, clock)) IN
       IF autoStart
         THEN StartSessionBegin(id, base)
         ELSE /\ sessions' = base
              /\ UNCHANGED <<starts, captures, startCalls>>
  /\ done' = NoCall
  /\ emitted' = <<>>
  /\ UNCHANGED <<mediaStream, streamLive, activeAudioContext, ctx, silenceTimer, timers,
                 lastVADResult, vad, stt, stops, frames, clock, delivered, ended, verdict, limit, paused, detectorVars, processorVars>>

startSession(id) ==
  /\ id \in AllIds
  /\ IF StartGuardFails(id)
       THEN /\ done' = Completed("startSession", id, "threw", "guard", "api", None)
            /\ emitted' = <<>>
            /\ UNCHANGED <<sessions, starts, captures, startCalls>>
       ELSE /\ startCalls[id] < limit.starts
            /\ StartSessionBegin(id, sessions)
            /\ done' = NoCall
            /\ emitted' = <<>>
  /\ UNCHANGED <<mediaStream, streamLive, activeAudioContext, ctx, silenceTimer, timers,
                 lastVADResult, vad, stt, stops, frames, clock, delivered, ended, verdict, limit, paused, detectorVars, processorVars>>

\* getUserMedia resolves: startRecording 209-213, processAudioStream 247-307, then
\* startSession 153 calls the collaborator's startSession and awaits it
getUserMediaResolved(call) ==
  /\ call \in Calls(starts)
  /\ call.pc = "getUserMedia"
  /\ LET id == call.sid IN
     /\ mediaStream' = id
     /\ streamLive' = [streamLive EXCEPT ![id] = TRUE]
     /\ sessions' = [sessions EXCEPT ![id].isRecording = TRUE]
     /\ activeAudioContext' = id
     /\ ctx' = [ctx EXCEPT ![id] = "running"]
     /\ \E o \in SttStartSession(stt) :
          /\ stt' = o[2]
          /\ starts' = Move(starts, call, [pc |-> "sttStart", sid |-> id, ok |-> o[1]])
  /\ done' = NoCall
  /\ emitted' = <<>>
  /\ UNCHANGED <<silenceTimer, timers, lastVADResult, vad, stops, frames, clock, delivered,
                 ended, captures, startCalls, verdict, limit, paused, detectorVars, processorVars>>

\* getUserMedia rejects: startRecording 215-219, startSession 162-167
getUserMediaRejected(call) ==
  /\ call \in Calls(starts)
  /\ call.pc = "getUserMedia"
  /\ sessions' = [sessions EXCEPT ![call.sid] = StartCatch(@)]
  /\ done' = Completed("startSession", call.sid, "threw", "capture", "api", None)
  /\ emitted' = <<Emit("onError", call.sid), Emit("onError", call.sid)>>
  /\ starts' = Take(starts, call)
  /\ UNCHANGED <<mediaStream, streamLive, activeAudioContext, ctx, silenceTimer, timers,
                 lastVADResult, vad, stt, stops, frames, clock, delivered, ended,
                 captures, startCalls, verdict, limit, paused, detectorVars, processorVars>>

\* the collaborator's startSession settles: startSession returns, or 162-167
sttStartSettled(call) ==
  /\ call \in Calls(starts)
  /\ call.pc = "sttStart"
  /\ IF call.ok
       THEN /\ done' = Completed("startSession", call.sid, "returned", "end", "api", None)
            /\ emitted' = <<>>
            /\ UNCHANGED sessions
       ELSE /\ sessions' = [sessions EXCEPT ![call.sid] = StartCatch(@)]
            /\ done' = Completed("startSession", call.sid, "threw", "stt", "api", None)
            /\ emitted' = <<Emit("onError", call.sid)>>
  /\ starts' = Take(starts, call)
  /\ UNCHANGED <<mediaStream, streamLive, activeAudioContext, ctx, silenceTimer, timers,
                 lastVADResult, vad, stt, stops, frames, clock, delivered, ended,
                 captures, startCalls, verdict, limit, paused, detectorVars, processorVars>>

(* ---------------- stopSession ---------------- *)
\* calculateFinalStatistics 417-430 with countSilencePeriods 432-449
RECURSIVE countSilencePeriods(_, _)
countSilencePeriods(transcripts, wasInSpeech) ==
  IF transcripts = <<>> THEN 0
  ELSE LET isInSpeech == Head(transcripts).conf = "gt" IN
       (IF ~isInSpeech /\ wasInSpeech THEN 1 ELSE 0)
         + countSilencePeriods(Tail(transcripts), isInSpeech)

\* VoiceActivityDetector.getStatistics 245-247: <<speechRatio, silenceRatio>>
getStatistics(v) ==
  IF v.frameIndex > 0
    THEN <<Rat(v.speechFrames, v.frameIndex), Rat(v.frameIndex - v.speechFrames, v.frameIndex)>>
    ELSE <<RatInt(0), RatInt(1)>>

\* as calculateFinalStatistics, keeping the split accumulated frame by frame
calculateFinalStatistics_KeepsSplit(sess, v) ==
  IF sess.endTime = NoTime THEN sess
  ELSE [sess EXCEPT !.statistics.totalDuration = sess.endTime - sess.startTime,
                    !.statistics.silencePeriods = countSilencePeriods(sess.transcripts, FALSE)]

calculateFinalStatistics(sess, v) ==
  IF sess.endTime = NoTime THEN sess
  ELSE LET totalDuration == sess.endTime - sess.startTime
           r == getStatistics(v) IN
       [sess EXCEPT !.statistics.totalDuration = totalDuration,
                    !.statistics.speakingDuration = Rat(totalDuration * r[1][1], r[1][2]),
                    !.statistics.silenceDuration = Rat(totalDuration * r[2][1], r[2][2]),
                    !.statistics.silencePeriods = countSilencePeriods(sess.transcripts, FALSE)]

\* stopSession 183-188, after both awaits
StopFinalize(sess, now, v) ==
  calculateFinalStatistics([sess EXCEPT !.endTime = now, !.isActive = FALSE], v)

\* stopSession 181: the call of the collaborator's stopSession, awaited; others
\* are the other stopSession calls in progress
StopCallStt(others, id, from, was) ==
  \E o \in SttStopSession(stt) :
    /\ stt' = o[2]
    /\ stops' = Put(others, [pc |-> "sttStop", sid |-> id, from |-> from, ok |-> o[1],
                             was |-> was])

\* stopSession 171-178 with stopRecording 222-242, up to its first await; pending
\* are the timers still to fire.  AudioContext.close() on a context that is already
\* closed may reject.
StopSessionBegin(id, from, pending) ==
  /\ BagCardinality(stops) < limit.stops
  /\ sessions' = [sessions EXCEPT ![id].isRecording = FALSE]
  /\ mediaStream' = None
  /\ streamLive' = IF mediaStream # None THEN [streamLive EXCEPT ![mediaStream] = FALSE]
                   ELSE streamLive
  /\ IF activeAudioContext # None
       THEN /\ ctx' = [ctx EXCEPT ![activeAudioContext] = "closed"]
            /\ \E ok \in (IF ctx[activeAudioContext] = "closed" THEN BOOLEAN ELSE {TRUE}) :
                 stops' = Put(stops, [pc |-> "close", sid |-> id, from |-> from, ok |-> ok,
                                      was |-> Lifecycle(id)])
            /\ timers' = pending
            /\ UNCHANGED <<silenceTimer, stt>>
       ELSE /\ timers' = clearTimeout(silenceTimer, pending)
            /\ silenceTimer' = NoTimer
            /\ StopCallStt(stops, id, from, Lifecycle(id))
            /\ UNCHANGED ctx

stopSession(id) ==
  /\ id \in AllIds
  /\ IF id \notin Known
       THEN /\ done' = Completed("stopSession", id, "threw", "guard", "api", None)
            /\ emitted' = <<>>
            /\ UNCHANGED <<sessions, mediaStream, streamLive, ctx, silenceTimer, timers, stt, stops>>
       ELSE /\ StopSessionBegin(id, "api", timers)
            /\ done' = NoCall
            /\ emitted' = <<>>
  /\ UNCHANGED <<activeAudioContext, lastVADResult, vad, starts, frames, clock, delivered,
                 ended, captures, startCalls, verdict, limit, paused, detectorVars, processorVars>>

\* activeAudioContext.close() settles: stopRecording 234-241, stopSession 181; or 190-193
closeSettled(call) ==
  /\ call \in Calls(stops)
  /\ call.pc = "close"
  /\ IF call.ok
       THEN /\ activeAudioContext' = None
            /\ timers' = clearTimeout(silenceTimer, timers)
            /\ silenceTimer' = NoTimer
            /\ StopCallStt(Take(stops, call), call.sid, call.from, call.was)
            /\ done' = NoCall
            /\ emitted' = <<>>
       ELSE /\ stops' = Take(stops, call)
            /\ done' = Completed("stopSession", call.sid, "threw", "close", call.from, call.was)
            /\ emitted' = <<Emit("onError", call.sid)>>
            /\ UNCHANGED <<activeAudioContext, timers, silenceTimer, stt>>
  /\ UNCHANGED <<sessions, mediaStream, streamLive, ctx, lastVADResult, vad, starts, frames,
                 clock, delivered, ended, captures, startCalls, verdict, limit, paused, detectorVars, processorVars>>

\* the collaborator's stopSession settles: stopSession 183-188 or 190-193; a stop
\* made by the silence timer then notifies, startSilenceTimer 340
sttStopSettled(call) ==
  /\ call \in Calls(stops)
  /\ call.pc = "sttStop"
  /\ LET id == call.sid
         from == call.from IN
       IF call.ok
         THEN /\ sessions' = [sessions EXCEPT ![id] = StopFinalize(@, clock, vad)]
              /\ ended' = IF from = "timer" THEN [ended EXCEPT ![id] = @ + 1] ELSE ended
              /\ done' = Completed("stopSession", id, "returned", "end", from, call.was)
              /\ emitted' = IF from = "timer" THEN <<Emit("onSessionEnd", id)>> ELSE <<>>
         ELSE /\ done' = Completed("stopSession", id, "threw", "stt", from, call.was)
              /\ emitted' = <<Emit("onError", id)>>
              /\ UNCHANGED <<sessions, ended>>
  /\ stops' = Take(stops, call)
  /\ UNCHANGED <<mediaStream, streamLive, activeAudioContext, ctx, silenceTimer, timers,
                 lastVADResult, vad, stt, starts, frames, clock, delivered, captures, startCalls, verdict, limit, paused, detectorVars, processorVars>>

\* the setTimeout callback of startSilenceTimer, 337-342
silenceTimerFired(t) ==
  /\ timers[t] # None
  /\ LET id == timers[t]
         pending == [timers EXCEPT ![t] = None] IN
       IF sessions[id].autoStop /\ sessions[id].isActive
         THEN StopSessionBegin(id, "timer", pending)
         ELSE /\ timers' = pending
              /\ UNCHANGED <<sessions, mediaStream, streamLive, ctx, silenceTimer, stt, stops>>
  /\ done' = NoCall
  /\ emitted' = <<>>
  /\ UNCHANGED <<activeAudioContext, lastVADResult, vad, starts, frames, clock, delivered,
                 ended, captures, startCalls, verdict, limit, paused, detectorVars, processorVars>>

(* ---------------- the frame callback ---------------- *)
\* handleVADChange 315-334 with startSilenceTimer 336-343:
\* <<silenceTimer afterwards, pending timers afterwards, callbacks invoked>>
handleVADChange(id, isSpeech) ==
  LET result == IF isSpeech THEN "speech" ELSE "silence"
      isSpeechChanged == lastVADResult # result IN
  IF ~isSpeechChanged THEN <<silenceTimer, timers, <<>>>>
  ELSE IF ~isSpeech
    THEN <<FirstFreeTimer, [timers EXCEPT ![FirstFreeTimer] = id], <<Emit("onVADChange", id)>>>>
  ELSE <<NoTimer, clearTimeout(silenceTimer, timers), <<Emit("onVADChange", id)>>>>

\* updateSessionStatistics 379-415
updateSessionStatistics(sess, isSpeech, now) ==
  [sess EXCEPT
     !.statistics.totalDuration = now - sess.startTime,
     !.statistics.speakingDuration = IF isSpeech THEN RatAdd(@, RatInt(HopSize)) ELSE @,
     !.statistics.silenceDuration = IF isSpeech THEN @ ELSE RatAdd(@, RatInt(HopSize)),
     !.statistics.chunksProcessed = @ + 1]

\* the catch of onaudioprocess 300-303, and of processSTT 372-376
CountError(sess) == [sess EXCEPT !.statistics.errorCount = @ + 1]

\* as FrameFailed, with one error counter for all the sessions of the manager
FrameFailed_SharedCounter(all, id) == [s \in DOMAIN all |-> CountError(all[s])]

\* session.statistics.errorCount++ (301, 373): session is the one the handler closes over
FrameFailed(all, id) == [all EXCEPT ![id] = CountError(@)]

\* the buffers of the frames a session accepted fit into the time since it was
\* created: the node delivers one buffer of 4096 samples per FramePeriod (254)
InRealTime(sess, now) == now - sess.startTime >= FramePeriod * sess.audioChunks

\* onaudioprocess 256-271: the entry guard, then the await of audioProcessor.process
onaudioprocess(id) ==
  /\ id \in Known
  /\ ctx[id] = "running"
  /\ limit.paced => InRealTime([sessions[id] EXCEPT !.audioChunks = @ + 1], clock)
  /\ delivered < limit.frames
  /\ BagCardinality(frames) < limit.inFlight
  /\ IF ~sessions[id].isRecording
       THEN /\ emitted' = <<>>
            /\ UNCHANGED <<sessions, frames, delivered>>
       ELSE /\ sessions' = [sessions EXCEPT ![id].audioChunks = @ + 1]
            /\ emitted' = <<Emit("onAudioData", id)>>
            /\ frames' = Put(frames, [pc |-> "process", sid |-> id, frame |-> delivered + 1,
                                      ok |-> TRUE])
            /\ delivered' = delivered + 1
  /\ done' = NoCall
  /\ UNCHANGED <<mediaStream, streamLive, activeAudioContext, ctx, silenceTimer, timers,
                 lastVADResult, vad, stt, starts, stops, clock, ended, captures, startCalls, verdict, limit, paused, detectorVars, processorVars>>

\* audioProcessor.process settles: 272-298 up to the next await, or 300-303
processSettled(h, ok, isSpeech, conf) ==
  /\ h \in Calls(frames)
  /\ h.pc = "process"
  /\ LET id == h.sid IN
       IF ~ok
         THEN /\ sessions' = FrameFailed(sessions, id)
              /\ emitted' = <<Emit("onError", id)>>
              /\ frames' = Take(frames, h)
              /\ UNCHANGED <<vad, silenceTimer, timers, lastVADResult, stt, verdict>>
         ELSE /\ isSpeech \/ lastVADResult = "silence" \/ FreeTimers # {}
              /\ vad' = [frameIndex |-> vad.frameIndex + 1,
                         speechFrames |-> vad.speechFrames + (IF isSpeech THEN 1 ELSE 0)]
              /\ silenceTimer' = handleVADChange(id, isSpeech)[1]
              /\ timers' = handleVADChange(id, isSpeech)[2]
              /\ lastVADResult' = IF isSpeech THEN "speech" ELSE "silence"
              /\ verdict' = [verdict EXCEPT ![id] = IF isSpeech THEN "speech" ELSE "silence"]
              /\ emitted' = handleVADChange(id, isSpeech)[3]
              /\ IF isSpeech /\ conf = "gt"
                   THEN IF stt = "null"
                     THEN \E o \in SttStartSession(stt) :
                            /\ stt' = o[2]
                            /\ frames' = Move(frames, h, [h EXCEPT !.pc = "sttStart", !.ok = o[1]])
                            /\ UNCHANGED sessions
                     ELSE /\ frames' = Move(frames, h, [h EXCEPT !.pc = "processAudio"])
                          /\ UNCHANGED <<sessions, stt>>
                   ELSE /\ sessions' = [sessions EXCEPT ![id] =
                                          updateSessionStatistics(@, isSpeech, clock)]
                        /\ frames' = Take(frames, h)
                        /\ UNCHANGED stt
  /\ done' = NoCall
  /\ UNCHANGED <<mediaStream, streamLive, activeAudioContext, ctx, starts, stops, clock,
                 delivered, ended, captures, startCalls, limit, paused, detectorVars, processorVars>>

\* the lazily started transcription sub-session settles: 284-290, or 300-303
frameSttStartSettled(h) ==
  /\ h \in Calls(frames)
  /\ h.pc = "sttStart"
  /\ LET id == h.sid IN
       IF h.ok
         THEN /\ frames' = Move(frames, h, [h EXCEPT !.pc = "processAudio"])
              /\ emitted' = <<>>
              /\ UNCHANGED sessions
         ELSE /\ sessions' = FrameFailed(sessions, id)
              /\ emitted' = <<Emit("onError", id)>>
              /\ frames' = Take(frames, h)
  /\ done' = NoCall
  /\ UNCHANGED <<mediaStream, streamLive, activeAudioContext, ctx, silenceTimer, timers,
                 lastVADResult, vad, stt, starts, stops, clock, delivered, ended,
                 captures, startCalls, verdict, limit, paused, detectorVars, processorVars>>

\* as AppendTranscript, without the confidence threshold of processSTT
AppendTranscript_NoThreshold(sess, frame, conf) ==
  [sess EXCEPT !.transcripts = Append(@, [frame |-> frame, conf |-> conf])]

\* processSTT 350-376: the collaborator's answer, then 291-298
AppendTranscript(sess, frame, conf) ==
  IF conf \in {"eq", "gt"}
    THEN [sess EXCEPT !.transcripts = Append(@, [frame |-> frame, conf |-> conf])]
    ELSE sess

processAudioSettled(h, ok, conf) ==
  /\ h \in Calls(frames)
  /\ h.pc = "processAudio"
  /\ LET id == h.sid
         after == IF ok THEN [sessions EXCEPT ![id] = AppendTranscript(@, h.frame, conf)]
                  ELSE FrameFailed(sessions, id) IN
       /\ sessions' = [after EXCEPT ![id] = updateSessionStatistics(@, TRUE, clock)]
       /\ emitted' = IF Len(after[id].transcripts) > Len(sessions[id].transcripts)
                       THEN <<Emit("onTranscript", id)>> ELSE <<>>
  /\ frames' = Take(frames, h)
  /\ done' = NoCall
  /\ UNCHANGED <<mediaStream, streamLive, activeAudioContext, ctx, silenceTimer, timers,
                 lastVADResult, vad, stt, starts, stops, clock, delivered, ended,
                 captures, startCalls, verdict, limit, paused, detectorVars, processorVars>>

(* ---------------- pause / resume / time ---------------- *)
\* pauseSession 496-502 and resumeSession 504-510: nothing is done for a session
\* that is not active
SetRecording(id, value) ==
  /\ id \in Known
  /\ IF sessions[id].isActive
       THEN /\ sessions' = [sessions EXCEPT ![id].isRecording = value]
            /\ paused' = IF limit.pauses THEN [paused EXCEPT ![id] = ~value] ELSE paused
       ELSE UNCHANGED <<sessions, paused>>
  /\ done' = NoCall
  /\ emitted' = <<>>
  /\ UNCHANGED <<mediaStream, streamLive, activeAudioContext, ctx, silenceTimer, timers,
                 lastVADResult, vad, stt, starts, stops, frames, clock, delivered, ended,
                 captures, startCalls, verdict, limit, detectorVars, processorVars>>

pauseSession(id) == SetRecording(id, FALSE)
resumeSession(id) == SetRecording(id, TRUE)

Tick ==
  /\ clock < limit.time * FramePeriod
  /\ clock' = clock + FramePeriod
  /\ done' = NoCall
  /\ emitted' = <<>>
  /\ UNCHANGED <<sessions, mediaStream, streamLive, activeAudioContext, ctx, silenceTimer,
                 timers, lastVADResult, vad, stt, starts, stops, frames, delivered, ended,
                 captures, startCalls, verdict, limit, paused, detectorVars, processorVars>>

Confidence == {"lt", "eq", "gt"}

Next ==
  \/ \E autoStart \in BOOLEAN, autoStop \in BOOLEAN : createSession(autoStart, autoStop)
  \/ \E id \in Known \cup {UnknownId} : startSession(id)
  \/ \E call \in Calls(starts) : getUserMediaResolved(call)
  \/ \E call \in Calls(starts) : getUserMediaRejected(call)
  \/ \E call \in Calls(starts) : sttStartSettled(call)
  \/ \E id \in Known \cup {UnknownId} : stopSession(id)
  \/ \E call \in Calls(stops) : closeSettled(call)
  \/ \E call \in Calls(stops) : sttStopSettled(call)
  \/ \E t \in TimerIds : silenceTimerFired(t)
  \/ \E id \in Known : onaudioprocess(id)
  \/ \E h \in Calls(frames), ok \in BOOLEAN, isSpeech \in BOOLEAN, conf \in Confidence :
       processSettled(h, ok, isSpeech, conf)
  \/ \E h \in Calls(frames) : frameSttStartSettled(h)
  \/ \E h \in Calls(frames), ok \in BOOLEAN, conf \in Confidence : processAudioSettled(h, ok, conf)
  \/ \E id \in Known : pauseSession(id)
  \/ \E id \in Known : resumeSession(id)
  \/ Tick

Spec == Init /\ [][Next]_vars

\* one session that is paused and resumed
SpecPause == Constructed(PauseProfiles) /\ [][Next]_vars

\* one session while the clock advances
SpecClock == Constructed(ClockProfiles) /\ [][Next]_vars

\* the operations on sessions that exist, all within one reading of the clock
SessionsNext ==
  \/ \E autoStart \in BOOLEAN, autoStop \in BOOLEAN : createSession(autoStart, autoStop)
  \/ \E id \in Known : startSession(id)
  \/ \E call \in Calls(starts) : getUserMediaResolved(call)
  \/ \E call \in Calls(starts) : getUserMediaRejected(call)
  \/ \E call \in Calls(starts) : sttStartSettled(call)
  \/ \E id \in Known : stopSession(id)
  \/ \E call \in Calls(stops) : closeSettled(call)
  \/ \E call \in Calls(stops) : sttStopSettled(call)
  \/ \E t \in TimerIds : silenceTimerFired(t)
  \/ \E id \in Known : onaudioprocess(id)
  \/ \E h \in Calls(frames), ok \in BOOLEAN, isSpeech \in BOOLEAN, conf \in Confidence :
       processSettled(h, ok, isSpeech, conf)
  \/ \E h \in Calls(frames) : frameSttStartSettled(h)
  \/ \E h \in Calls(frames), ok \in BOOLEAN, conf \in Confidence : processAudioSettled(h, ok, conf)

\* two sessions through their whole life cycle
SpecSessions == Constructed(SessionProfiles) /\ [][SessionsNext]_vars

\* two sessions, the second created after the first has ended
SpecSuccession == Constructed(SuccessionProfiles) /\ [][SessionsNext]_vars

\* starting sessions and handling their frames
FramesNext ==
  \/ \E autoStart \in BOOLEAN, autoStop \in BOOLEAN : createSession(autoStart, autoStop)
  \/ \E id \in Known : startSession(id)
  \/ \E call \in Calls(starts) : getUserMediaResolved(call)
  \/ \E call \in Calls(starts) : getUserMediaRejected(call)
  \/ \E call \in Calls(starts) : sttStartSettled(call)
  \/ \E t \in TimerIds : silenceTimerFired(t)
  \/ \E id \in Known : onaudioprocess(id)
  \/ \E h \in Calls(frames), ok \in BOOLEAN, isSpeech \in BOOLEAN, conf \in Confidence :
       processSettled(h, ok, isSpeech, conf)
  \/ \E h \in Calls(frames) : frameSttStartSettled(h)
  \/ \E h \in Calls(frames), ok \in BOOLEAN, conf \in Confidence : processAudioSettled(h, ok, conf)

\* two sessions that are started and handle frames
SpecVerdicts == Constructed(VerdictProfiles) /\ [][FramesNext]_vars

(* ---------------- the voice activity detector ---------------- *)
\* A frame is given by the three features processFrame computes from its samples
\* (62-65): energy in thousandths, zero crossing rate in thousandths, spectral
\* centroid in Hz.  Probabilities are in thousandths, thresholds and the baseline
\* in millionths.
Frame(energy, zcr, centroid) == [energy |-> energy, zcr |-> zcr, centroid |-> centroid]

Min(x, y) == IF x <= y THEN x ELSE y
Max(x, y) == IF x >= y THEN x ELSE y

\* Math.pow(voiceProbability, sensitivity) for the sensitivities 1.0 and 2.0
Pow(probability, sensitivity) ==
  IF sensitivity = 10 THEN probability ELSE (probability * probability) \div 1000

\* as calculateVoiceProbability, counting the energy only above the threshold
calculateVoiceProbability_UsesThreshold(energy, zcr, spectralCentroid, threshold, sensitivity) ==
  LET normalizedEnergy == IF energy * 1000 > threshold THEN Min(energy * 10, 1000) ELSE 0
      normalizedZCR == Max(0, Min(zcr * 10, 1000))
      normalizedCentroid == Min(spectralCentroid \div 2, 1000)
      voiceProbability == (normalizedEnergy * 5 + (1000 - normalizedZCR) * 2
                             + normalizedCentroid * 3) \div 10
      adjustedProbability == Pow(voiceProbability, sensitivity) IN
  Max(0, Min(1000, adjustedProbability))

\* calculateVoiceProbability 139-163; the threshold is a parameter the body never reads
calculateVoiceProbability(energy, zcr, spectralCentroid, threshold, sensitivity) ==
  LET normalizedEnergy == Min(energy * 10, 1000)
      normalizedZCR == Max(0, Min(zcr * 10, 1000))
      normalizedCentroid == Min(spectralCentroid \div 2, 1000)
      voiceProbability == (normalizedEnergy * 5 + (1000 - normalizedZCR) * 2
                             + normalizedCentroid * 3) \div 10
      adjustedProbability == Pow(voiceProbability, sensitivity) IN
  Max(0, Min(1000, adjustedProbability))

\* calculateAdaptiveThreshold 165-187: <<threshold, baselineEnergy afterwards>>
calculateAdaptiveThreshold(d) ==
  IF Len(d.energyHistory) < 10 THEN <<d.config.threshold, d.baselineEnergy>>
  ELSE LET sortedEnergies == SortSeq(d.energyHistory, LAMBDA a, b : a < b)
           medianIndex == Len(sortedEnergies) \div 2
           medianEnergy == sortedEnergies[medianIndex + 1]
           adaptiveThreshold == medianEnergy * 2500
           smoothedThreshold == (d.baselineEnergy * 99 + adaptiveThreshold) \div 100 IN
       <<Max(d.config.threshold \div 2, Min(smoothedThreshold, d.config.threshold * 3)),
         smoothedThreshold>>

\* applyHysteresis 189-204: 0.5 - 0.1 and 0.5 + 0.1 are the doubles 0.4 and 0.6
applyHysteresis(d, voiceProbability) ==
  IF d.lastVADResult = NoResult THEN voiceProbability > 500
  ELSE IF d.lastVADResult[1].isSpeech THEN voiceProbability > 400
  ELSE voiceProbability > 600

\* as updateState, counting a silence frame only where the silence duration grows
updateState_CountsSilenceWithDuration(d, isSpeech) ==
  LET now == d.frameIndex * d.config.hopSize
      st == d.state
      edge == IF isSpeech /\ ~st.isSpeech
                THEN [st EXCEPT !.isSpeech = TRUE, !.speechStartTime = now]
              ELSE IF ~isSpeech /\ st.isSpeech
                THEN [st EXCEPT !.isSpeech = FALSE, !.speechEndTime = now,
                                !.totalSpeechDuration = @ + (now - st.speechStartTime)]
              ELSE st IN
  IF isSpeech THEN [edge EXCEPT !.speechFrames = @ + 1]
  ELSE IF edge.isSpeech
    THEN [edge EXCEPT !.silenceFrames = @ + 1,
                      !.totalSilenceDuration = @ + (now - edge.speechEndTime)]
  ELSE edge

\* updateState 206-228
updateState(d, isSpeech) ==
  LET now == d.frameIndex * d.config.hopSize
      st == d.state
      edge == IF isSpeech /\ ~st.isSpeech
                THEN [st EXCEPT !.isSpeech = TRUE, !.speechStartTime = now]
              ELSE IF ~isSpeech /\ st.isSpeech
                THEN [st EXCEPT !.isSpeech = FALSE, !.speechEndTime = now,
                                !.totalSpeechDuration = @ + (now - st.speechStartTime)]
              ELSE st IN
  IF isSpeech THEN [edge EXCEPT !.speechFrames = @ + 1]
  ELSE [edge EXCEPT !.silenceFrames = @ + 1,
                    !.totalSilenceDuration =
                       IF edge.isSpeech THEN @ + (now - edge.speechEndTime) ELSE @]

\* as Push, without the limit of the history
Push_Unbounded(history, energy) == Append(history, energy)

\* processFrame 68-71: energyHistory.push(energy), then shift() beyond HistoryLimit entries
Push(history, energy) ==
  LET pushed == Append(history, energy) IN
  IF Len(pushed) > HistoryLimit THEN Tail(pushed) ELSE pushed

\* processFrame 59-103: the detector afterwards; its lastVADResult is the result returned
processFrame(d, f) ==
  LET history == Push(d.energyHistory, f.energy)
      withHistory == [d EXCEPT !.energyHistory = history]
      adaptive == IF d.config.adaptiveThreshold THEN calculateAdaptiveThreshold(withHistory)
                  ELSE <<d.config.threshold, d.baselineEnergy>>
      voiceProbability == calculateVoiceProbability(f.energy, f.zcr, f.centroid, adaptive[1],
                                                    d.config.sensitivity)
      isSpeech == applyHysteresis(d, voiceProbability)
      result == [isSpeech |-> isSpeech, confidence |-> voiceProbability, energy |-> f.energy,
                 timestamp |-> d.frameIndex * d.config.hopSize, frameIndex |-> d.frameIndex,
                 voiceProbability |-> voiceProbability, spectralCentroid |-> f.centroid] IN
  [withHistory EXCEPT !.baselineEnergy = adaptive[2],
                      !.state = updateState(d, isSpeech),
                      !.lastVADResult = <<result>>,
                      !.frameIndex = @ + 1]

RECURSIVE Sum(_)
Sum(seq) == IF seq = <<>> THEN 0 ELSE Head(seq) + Sum(Tail(seq))

\* VoiceActivityDetector.getStatistics 239-263, the value returned
Statistics(d) ==
  LET n == Len(d.energyHistory)
      squares == [i \in 1..n |-> d.energyHistory[i] * d.energyHistory[i]]
      ratios == getStatistics([frameIndex |-> d.frameIndex, speechFrames |-> d.state.speechFrames]) IN
  [speechRatio |-> ratios[1],
   silenceRatio |-> ratios[2],
   averageEnergy |-> IF n > 0 THEN Rat(Sum(d.energyHistory), n) ELSE RatInt(0),
   energyVariance |-> IF n > 1
                        THEN Rat(n * Sum(squares) - Sum(d.energyHistory) * Sum(d.energyHistory), n * n)
                        ELSE RatInt(0)]

\* as calibrate, restarting the frame counter as well
calibrate_RestartsIndex(d, noiseEnergy) ==
  [d EXCEPT !.config.threshold = Max(1000, noiseEnergy * 3000),
            !.baselineEnergy = noiseEnergy * 3000,
            !.energyHistory = <<>>,
            !.frameIndex = 0]

\* calibrate 266-278; noiseEnergy is the energy of the first window of the noise
calibrate(d, noiseEnergy) ==
  [d EXCEPT !.config.threshold = Max(1000, noiseEnergy * 3000),
            !.baselineEnergy = noiseEnergy * 3000,
            !.energyHistory = <<>>]

\* as reset, keeping the last result
reset_KeepsLastResult(d) ==
  [NewDetector(d.config) EXCEPT !.baselineEnergy = d.config.threshold,
                                !.lastVADResult = d.lastVADResult]

\* reset 280-295
reset(d) == [NewDetector(d.config) EXCEPT !.baselineEnergy = d.config.threshold]

\* updateConfig 298-300: the fields of the partial config replace those of the config
updateConfig(d, partial) ==
  [d EXCEPT !.config = [k \in DOMAIN d.config |->
                          IF k \in DOMAIN partial THEN partial[k] ELSE d.config[k]]]

\* setSensitivity 306-308, in tenths
setSensitivity(d, sensitivity) ==
  [d EXCEPT !.config.sensitivity = Max(1, Min(20, sensitivity))]

\* setAdaptiveThreshold 310-315; adaptationRate is 0.01 before and after
setAdaptiveThreshold(d, enabled) == [d EXCEPT !.config.adaptiveThreshold = enabled]

\* the frames fed to the detector: voice probabilities 0.38, 0.4, 0.45, 0.55 and
\* 0.6 at sensitivity 1.0
Frames == {Frame(e, 100, 2000) : e \in {16, 20, 30, 50, 60}}

\* the k-th frame of a long run
RampFrame(k) == Frame((k % 7) * 10, 100, 2000)

NoiseEnergies == {0, 2}
PartialConfigs == {[threshold |-> 20000], [hopSize |-> 10]}
Sensitivities == {10, 20, 30}

\* the same call on twin, if it is constructed
OnTwin(Method(_)) == IF twin = <<>> THEN <<>> ELSE <<Method(twin[1])>>

\* the same call on peer, if there is one
OnPeer(Method(_)) == IF peer = <<>> THEN <<>> ELSE <<Method(peer[1])>>

\* a method of the detector is called; twin, if constructed, and peer, if there is
\* one, get the same call
Called(op, value, next, nextTwin, nextPeer) ==
  /\ det' = next
  /\ twin' = nextTwin
  /\ peer' = nextPeer
  /\ returned' = [op |-> op, value |-> value]
  /\ fed' = IF op = "processFrame" THEN [fed EXCEPT !.frames = @ + 1]
            ELSE [fed EXCEPT !.others = @ + 1]
  /\ UNCHANGED <<managerVars, processorVars>>

Other == fed.others < limit.vadCalls

processFrameCall(f) ==
  /\ fed.frames < limit.vadFrames
  /\ limit.ramp => f = RampFrame(fed.frames)
  /\ ~limit.ramp => f \in Frames
  /\ arrived' = Append(arrived, f.energy)
  /\ results' = Append(results, processFrame(det, f).lastVADResult[1])
  /\ Called("processFrame", processFrame(det, f).lastVADResult[1], processFrame(det, f),
            OnTwin(LAMBDA d : processFrame(d, f)), OnPeer(LAMBDA d : processFrame(d, f)))

resetCall ==
  /\ Other
  /\ arrived' = <<>>
  /\ results' = <<>>
  /\ Called("reset", None, reset(det), <<NewDetector(reset(det).config)>>, OnPeer(reset))

calibrateCall(noiseEnergy) ==
  /\ Other
  /\ arrived' = <<>>
  /\ UNCHANGED results
  /\ Called("calibrate", None, calibrate(det, noiseEnergy),
            OnTwin(LAMBDA d : calibrate(d, noiseEnergy)),
            OnPeer(LAMBDA d : calibrate(d, noiseEnergy)))

updateConfigCall(partial) ==
  /\ Other
  /\ UNCHANGED <<arrived, results>>
  /\ Called("updateConfig", None, updateConfig(det, partial),
            OnTwin(LAMBDA d : updateConfig(d, partial)),
            OnPeer(LAMBDA d : updateConfig(d, partial)))

setSensitivityCall(sensitivity) ==
  /\ Other
  /\ UNCHANGED <<arrived, results>>
  /\ Called("setSensitivity", None, setSensitivity(det, sensitivity),
            OnTwin(LAMBDA d : setSensitivity(d, sensitivity)),
            OnPeer(LAMBDA d : setSensitivity(d, sensitivity)))

setAdaptiveThresholdCall(enabled) ==
  /\ Other
  /\ UNCHANGED <<arrived, results>>
  /\ Called("setAdaptiveThreshold", None, setAdaptiveThreshold(det, enabled),
            OnTwin(LAMBDA d : setAdaptiveThreshold(d, enabled)),
            OnPeer(LAMBDA d : setAdaptiveThreshold(d, enabled)))

\* as getStatisticsCall, by a getStatistics that consumes the oldest energy
getStatisticsCall_Consuming ==
  /\ Other
  /\ UNCHANGED <<arrived, results>>
  /\ Called("getStatistics", Statistics(det),
            [det EXCEPT !.energyHistory = IF @ = <<>> THEN @ ELSE Tail(@)], twin, peer)

\* getStatistics 239-263 assigns no field
getStatisticsCall ==
  /\ Other
  /\ UNCHANGED <<arrived, results>>
  /\ Called("getStatistics", Statistics(det), det, twin, peer)

DetectorNext ==
  \/ \E f \in Frames \cup {RampFrame(fed.frames)} : processFrameCall(f)
  \/ resetCall
  \/ \E noiseEnergy \in NoiseEnergies : calibrateCall(noiseEnergy)
  \/ \E partial \in PartialConfigs : updateConfigCall(partial)
  \/ \E sensitivity \in Sensitivities : setSensitivityCall(sensitivity)
  \/ \E enabled \in BOOLEAN : setAdaptiveThresholdCall(enabled)
  \/ getStatisticsCall

SpecDetector == Constructed(DetectorProfiles) /\ [][DetectorNext]_vars

\* two detectors that get the same calls
SpecPair == Constructed(PairProfiles) /\ [][DetectorNext]_vars

(* ---------------- the audio processor ---------------- *)
\* A sample is a fraction <<numerator, denominator>>.  A JavaScript number that
\* may be NaN or infinite is a record: k is "num", "nan", "inf" or "-inf", and v is
\* the fraction of a "num".
RatNeg(p) == <<-p[1], p[2]>>
RatAbs(p) == IF p[1] < 0 THEN RatNeg(p) ELSE p
RatMul(p, q) == Rat(p[1] * q[1], p[2] * q[2])
RatDiv(p, q) == IF q[1] < 0 THEN Rat(-(p[1] * q[2]), p[2] * (-q[1])) ELSE Rat(p[1] * q[2], p[2] * q[1])
RatLess(p, q) == p[1] * q[2] < q[1] * p[2]

Num(p) == [k |-> "num", v |-> p]
NaN == [k |-> "nan", v |-> <<0, 1>>]
Infinity == [k |-> "inf", v |-> <<1, 1>>]
MinusInfinity == [k |-> "-inf", v |-> <<-1, 1>>]
IsFinite(x) == x.k = "num"

\* x / y of two numbers
Div(x, y) ==
  IF x.k = "nan" \/ y.k = "nan" THEN NaN
  ELSE IF x.k = "num" /\ y.k = "num"
    THEN IF y.v[1] # 0 THEN Num(RatDiv(x.v, y.v))
         ELSE IF x.v[1] = 0 THEN NaN
         ELSE IF x.v[1] > 0 THEN Infinity ELSE MinusInfinity
  ELSE IF x.k = "num" THEN Num(RatInt(0))
  ELSE IF y.k # "num" THEN NaN
  ELSE IF (x.k = "inf") = (y.v[1] >= 0) THEN Infinity ELSE MinusInfinity

\* x * y of two numbers
Mul(x, y) ==
  IF x.k = "nan" \/ y.k = "nan" THEN NaN
  ELSE IF x.k = "num" /\ y.k = "num" THEN Num(RatMul(x.v, y.v))
  ELSE IF x.v[1] = 0 \/ y.v[1] = 0 THEN NaN
  ELSE IF (x.v[1] > 0) = (y.v[1] > 0) THEN Infinity ELSE MinusInfinity

\* x - y of two numbers
Sub(x, y) ==
  IF x.k = "nan" \/ y.k = "nan" THEN NaN
  ELSE IF x.k = "num" /\ y.k = "num" THEN Num(RatAdd(x.v, RatNeg(y.v)))
  ELSE IF x.k = y.k THEN NaN
  ELSE IF x.k = "inf" \/ y.k = "-inf" THEN Infinity ELSE MinusInfinity

\* Math.sqrt, rounded down to hundredths for a finite argument
Sqrt(x) ==
  IF x.k = "nan" \/ x.k = "-inf" THEN NaN
  ELSE IF x.k = "inf" THEN Infinity
  ELSE IF x.v[1] < 0 THEN NaN
  ELSE Num(Rat(CHOOSE r \in 0..300 :
                 /\ r * r * x.v[2] <= 10000 * x.v[1]
                 /\ (r + 1) * (r + 1) * x.v[2] > 10000 * x.v[1], 100))

\* Math.log10, rounded down to whole numbers for a finite positive argument
Log10(x) ==
  IF x.k = "nan" \/ x.k = "-inf" THEN NaN
  ELSE IF x.k = "inf" THEN Infinity
  ELSE IF x.v[1] < 0 THEN NaN
  ELSE IF x.v[1] = 0 THEN MinusInfinity
  ELSE LET p10 == <<1, 10, 100, 1000, 10000, 100000>> IN
       Num(RatInt(CHOOSE e \in -4..4 :
                    IF e >= 0 THEN /\ x.v[1] >= x.v[2] * p10[e + 1]
                                   /\ x.v[1] < x.v[2] * p10[e + 2]
                    ELSE /\ x.v[1] * p10[1 - e] >= x.v[2]
                         /\ x.v[1] * p10[-e] < x.v[2]))

\* Math.max(...values) and Math.min(...values): -Infinity and Infinity of no values
RECURSIVE MathMax(_)
MathMax(values) ==
  IF values = <<>> THEN MinusInfinity
  ELSE LET rest == MathMax(Tail(values))
           first == Head(values) IN
       IF first.k = "nan" \/ rest.k = "nan" THEN NaN
       ELSE IF rest.k = "-inf" THEN first
       ELSE IF RatLess(first.v, rest.v) THEN rest ELSE first

RECURSIVE MathMin(_)
MathMin(values) ==
  IF values = <<>> THEN Infinity
  ELSE LET rest == MathMin(Tail(values))
           first == Head(values) IN
       IF first.k = "nan" \/ rest.k = "nan" THEN NaN
       ELSE IF rest.k = "inf" THEN first
       ELSE IF RatLess(rest.v, first.v) THEN rest ELSE first

\* x > y: false when either is NaN
Greater(x, y) ==
  /\ x.k # "nan" /\ y.k # "nan"
  /\ \/ x.k = "inf" /\ y.k # "inf"
     \/ y.k = "-inf" /\ x.k # "-inf"
     \/ x.k = "num" /\ y.k = "num" /\ RatLess(y.v, x.v)

Abs(audioData) == [i \in DOMAIN audioData |-> Num(RatAbs(audioData[i]))]
Length(audioData) == Num(RatInt(Len(audioData)))

RECURSIVE RatSum(_)
RatSum(seq) == IF seq = <<>> THEN RatInt(0) ELSE RatAdd(Head(seq), RatSum(Tail(seq)))

SumOfSquares(audioData) ==
  Num(RatSum([i \in DOMAIN audioData |-> RatMul(audioData[i], audioData[i])]))

\* as normalize, scaling the peak to 1 whatever the target volume
normalize_ToFullScale(audioData, targetVolume) ==
  LET max == MathMax(Abs(audioData)) IN
  IF max = Num(RatInt(0)) THEN audioData
  ELSE [i \in DOMAIN audioData |-> RatDiv(audioData[i], max.v)]

\* normalize 117-129
normalize(audioData, targetVolume) ==
  LET max == MathMax(Abs(audioData)) IN
  IF max = Num(RatInt(0)) THEN audioData
  ELSE [i \in DOMAIN audioData |-> RatMul(RatDiv(audioData[i], max.v), targetVolume)]

\* denoise 131-153 for a frame of at most 1024 samples: no window is processed
denoise(audioData) == [i \in DOMAIN audioData |-> RatInt(0)]

\* createNoiseProfile 482-490: the first tenth of the frame
createNoiseProfile(audioData) == SubSeq(audioData, 1, Len(audioData) \div 10)

\* applyGain 194-200
applyGain(audioData, gain) == [i \in DOMAIN audioData |-> RatMul(audioData[i], gain)]

\* convertToFloat32 223-234: one sample per two bytes, low byte first
convertToFloat32(bytes) ==
  [i \in 1..(Len(bytes) \div 2) |->
     Rat((bytes[2 * i - 1] + 256 * bytes[2 * i]) - 32768, 32768)]

\* detectVoiceActivity 236-266 for a frame shorter than one hop of 661 samples:
\* no window is examined
detectVoiceActivity(audioData) ==
  LET windows == Num(RatInt(0))
      speechWindows == Num(RatInt(0)) IN
  Greater(Div(speechWindows, windows), Num(<<3, 10>>))

\* calculateRMSVolume 310-316 and calculateEnergy 318-324
calculateEnergy(audioData) == Div(SumOfSquares(audioData), Length(audioData))
calculateRMSVolume(audioData) == Sqrt(calculateEnergy(audioData))

\* calculateSNR 336-360 for a frame shorter than one window of 1024 samples: the
\* noise estimate is the default 0.0001
calculateSNR(audioData) ==
  LET signal == calculateEnergy(audioData)
      noise == Num(<<1, 10000>>) IN
  Mul(Num(RatInt(10)), Log10(Div(signal, MathMax(<<noise, Num(<<1, 10000>>)>>))))

\* estimateAmplitudeAtFrequency 414-425 for a frame of at most one sample, where
\* cos(0) = 1 and sin(0) = 0 are the only factors
estimateAmplitudeAtFrequency(audioData) ==
  LET real == IF audioData = <<>> THEN Num(RatInt(0)) ELSE Num(audioData[1]) IN
  Div(Sqrt(Mul(real, real)), Length(audioData))

\* estimateTHD 362-372 with estimateHarmonics 401-412: five harmonics, all at the
\* same amplitude for a frame of at most one sample
estimateTHD(audioData) ==
  LET h == estimateAmplitudeAtFrequency(audioData)
      power == Mul(h, h)
      totalHarmonicPower == Mul(Num(RatInt(5)), power)
      fundamentalPower == power IN
  Sqrt(Div(totalHarmonicPower, MathMax(<<fundamentalPower, Num(<<1, 10000>>)>>)))

\* the samples that satisfy a test, as a number
Count(audioData, Test(_)) == Num(RatInt(Cardinality({i \in DOMAIN audioData : Test(audioData[i])})))

\* calculateQuality 268-308
calculateQuality(audioData) ==
  LET max == MathMax(Abs(audioData))
      min == MathMin(Abs(audioData))
      clipped == Count(audioData, LAMBDA x : RatLess(<<99, 100>>, RatAbs(x)))
      silenceCount == Count(audioData, LAMBDA x : RatLess(RatAbs(x), <<1, 1000>>)) IN
  [snr |-> calculateSNR(audioData),
   dynamicRange |-> Sub(max, min),
   clipping |-> Mul(Div(clipped, Length(audioData)), Num(RatInt(100))),
   silence |-> Mul(Div(silenceCount, Length(audioData)), Num(RatInt(100))),
   peakLevel |-> max,
   rmsLevel |-> calculateRMSVolume(audioData),
   thd |-> estimateTHD(audioData)]

\* process 68: { ...this.config, ...config }
Merged(config, partial) ==
  [k \in DOMAIN config |-> IF k \in DOMAIN partial THEN partial[k] ELSE config[k]]

\* process 67-115 for a raw frame of at most one sample, under the merged config:
\* the ProcessedAudio returned, without the fields copied from the config and
\* without spectralAnalysis
process(config, bytes) ==
  LET floatData == convertToFloat32(bytes)
      normalized == IF config.enableNormalization
                      THEN normalize(floatData, config.targetVolume) ELSE floatData
      denoised == IF config.enableNoiseReduction THEN denoise(normalized) ELSE normalized
      processed == applyGain(denoised, config.targetVolume) IN
  [data |-> processed,
   duration |-> Div(Length(processed), Num(RatInt(config.sampleRate))),
   volume |-> calculateRMSVolume(processed),
   hasVoice |-> detectVoiceActivity(processed),
   quality |-> calculateQuality(processed)]

\* the noise profile after process: denoise 138-140 creates it from the frame it
\* is given if there is none
ProfileAfter(p, config, bytes) ==
  LET floatData == convertToFloat32(bytes)
      normalized == IF config.enableNormalization
                      THEN normalize(floatData, config.targetVolume) ELSE floatData IN
  IF config.enableNoiseReduction /\ p.noiseProfile = <<>>
    THEN <<createNoiseProfile(normalized)>> ELSE p.noiseProfile

\* the sample values of the frames handed to normalize
Samples == {<<-1, 1>>, <<0, 1>>, <<1, 2>>}

RECURSIVE FramesOf(_)
FramesOf(n) ==
  IF n = 0 THEN {<<>>}
  ELSE FramesOf(n - 1) \cup {Append(f, x) : f \in {g \in FramesOf(n - 1) : Len(g) = n - 1}, x \in Samples}

\* the raw frames handed to process: no sample, or one of -1, -1/2, 0, 1/2
RawFrames ==
  {<<>>, <<0>>} \cup {<<0, high>> : high \in {0, 64, 128, 192}}
    \cup {<<0, high, 0>> : high \in {0, 64, 128, 192}}

normalizeCall(audioData) ==
  /\ Len(audioData) <= limit.samples
  /\ out' = [op |-> "normalize", given |-> audioData,
             value |-> normalize(audioData, ap.config.targetVolume)]
  /\ UNCHANGED <<ap, managerVars, detectorVars>>

\* the partial configs handed to process
PartialAudioConfigs ==
  {[sampleRate |-> 44100], [enableNoiseReduction |-> FALSE], [targetVolume |-> <<1, 2>>]}

processCall(bytes, partial) ==
  LET config == Merged(ap.config, partial) IN
  /\ limit.samples > 0
  /\ out' = [op |-> "process", given |-> bytes, value |-> process(config, bytes)]
  /\ ap' = [config |-> config, noiseProfile |-> ProfileAfter(ap, config, bytes)]
  /\ UNCHANGED <<managerVars, detectorVars>>

ProcessorNext ==
  \/ \E audioData \in FramesOf(MaxSamples) : normalizeCall(audioData)
  \/ \E bytes \in RawFrames, partial \in PartialAudioConfigs : processCall(bytes, partial)

SpecProcessor == Constructed(ProcessorProfiles) /\ [][ProcessorNext]_vars

(* ======================================================================= *)
(*                               Properties                                *)
(* ======================================================================= *)
StopInProgress(id) == \E call \in Calls(stops) : call.sid = id
\* the step makes a new stopSession call on id pass the guard; from is its caller
NewStop(id, from) ==
  /\ BagCardinality(stops') > BagCardinality(stops)
  /\ \E call \in Added(stops, stops') : call.sid = id /\ call.from = from
TimerPending(id) == \E t \in TimerIds : timers[t] = id

\* C1: while a stopSession call on a session is suspended at an await, the silence
\* timer does not fire into a second stop of the same session: stopSession has
\* cancelled the timer and stopped frame handling before its first suspension point.
TimerStopCalled(id) == NewStop(id, "timer")

C1_NoReentrantTimerStop ==
  [][\A id \in Known : StopInProgress(id) => ~TimerStopCalled(id)]_vars

\* C2: when the stop made by the silence timer of an Active autoStop session is
\* over, the session is not Active and, in its first run, onSessionEnd was invoked
\* exactly once.
C2_AutoStopEndsSession ==
  (done.op = "stopSession" /\ done.from = "timer" /\ done.was = "Active" /\ done.at \in {"end", "stt"})
    => /\ ~sessions[done.sid].isActive
       /\ startCalls[done.sid] = 1 => ended[done.sid] = 1

\* C3: once a stop of a session has completed, no step changes the session's
\* transcripts, statistics or endTime.
C3_StoppedSessionIsFrozen ==
  [][\A id \in Known :
       Finalized(id) =>
         /\ sessions'[id].transcripts = sessions[id].transcripts
         /\ sessions'[id].statistics = sessions[id].statistics
         /\ sessions'[id].endTime = sessions[id].endTime]_vars

\* C4: a stopSession call on a known session that is not Active does nothing: it
\* reaches neither stopRecording nor the collaborator's stopSession, raises nothing
\* and leaves the flags, the capture stream and the collaborator unchanged.
StopCalled(id) == NewStop(id, "api")

C4_StopOfInactiveIsNoOp ==
  [][\A id \in Known : ~sessions[id].isActive => ~StopCalled(id)]_vars

\* C5: a stopSession call made on a session that an earlier stop has finalized leaves endTime and the finalized statistics as the first stop set them.
C5_SecondStopSameStatistics ==
  [][\A id \in Known :
       (done'.op = "stopSession" /\ done'.sid = id /\ done'.was = "Stopped")
         => /\ sessions'[id].endTime = sessions[id].endTime
            /\ sessions'[id].statistics = sessions[id].statistics]_vars

\* C6: a session that has been stopped (its endTime is set) is never Active again.
C6_NoReactivation ==
  \A id \in Known : sessions[id].endTime # NoTime => ~sessions[id].isActive

\* C7: a startSession call with an unknown id or on a session whose isActive flag
\* is set throws at the guards and changes neither a session, nor the capture
\* stream and audio context, nor the silence timer, and requests no capture.
StartCalled(id) ==
  \/ done'.op = "startSession" /\ done'.sid = id /\ done'.at = "guard"
  \/ \E call \in Added(starts, starts') : call.pc = "getUserMedia" /\ call.sid = id

C7_StartRejectedWithoutEffect ==
  [][\A id \in AllIds :
       (StartCalled(id) /\ (id \notin DOMAIN sessions' \/ (id \in Known /\ sessions[id].isActive)))
         => /\ done' = Completed("startSession", id, "threw", "guard", "api", None)
            /\ UNCHANGED <<sessions, mediaStream, streamLive, activeAudioContext, ctx,
                           silenceTimer, timers, captures, starts>>]_vars

C7_Witness ==
  /\ done.op = "startSession" /\ done.at = "guard" /\ done.result = "threw"
  /\ done.sid \in Known /\ sessions[done.sid].isActive /\ mediaStream = done.sid

\* C8: when getUserMedia rejects, the startSession call throws, requests no
\* further capture, and ends with isActive = false and isRecording = false.
C8_CaptureFailureIsFatal ==
  [][(done'.op = "startSession" /\ done'.at = "capture")
       => /\ done'.result = "threw"
          /\ ~sessions'[done'.sid].isActive
          /\ ~sessions'[done'.sid].isRecording
          /\ captures' = captures
          /\ mediaStream' = mediaStream
          /\ Added(starts, starts') = {}]_vars

C8_Witness ==
  /\ done.op = "startSession" /\ done.at = "capture" /\ done.result = "threw"
  /\ ~sessions[done.sid].isActive /\ captures[done.sid] = 1

\* C9: isActive is set only when the capture stream was acquired and the
\* collaborator accepted the session: not while a startSession call still awaits
\* getUserMedia or the collaborator's startSession.
C9_ActiveOnlyAfterStartCompleted ==
  \A call \in Calls(starts) : ~sessions[call.sid].isActive

\* C10: when a stopSession call made on an Active session is over, by return or
\* because the collaborator's stopSession failed, the session has isActive = false,
\* isRecording = false, endTime set, no capture stream held and no timer pending.
C10_StopAlwaysFinalizes ==
  (done.op = "stopSession" /\ done.was = "Active" /\ done.at \in {"end", "stt"})
    => /\ ~sessions[done.sid].isActive
       /\ ~sessions[done.sid].isRecording
       /\ sessions[done.sid].endTime # NoTime
       /\ mediaStream = None
       /\ ~TimerPending(done.sid)

\* C11: a silence timer is started when a session's verdict changes from Speech to
\* Silence; after a Speech frame of the session none of its timers is pending, so a
\* timer started before the session's most recent Speech frame never fires; and at
\* most one silence timer is pending for a session.
TimersOf(id, pending) == {t \in TimerIds : pending[t] = id}

\* the step gives session id the verdict of a frame (line 275)
Judged(id) ==
  /\ vad'.frameIndex = vad.frameIndex + 1
  /\ \E h \in Calls(frames) :
       h.sid = id /\ h.pc = "process" /\ CopiesIn(h, frames') < CopiesIn(h, frames)

C11_SilenceTimerFollowsVerdict ==
  [][\A id \in Known :
       /\ (Judged(id) /\ verdict[id] = "speech" /\ verdict'[id] = "silence")
            => \E t \in TimerIds : timers[t] # id /\ timers'[t] = id
       /\ (Judged(id) /\ verdict'[id] = "speech") => TimersOf(id, timers') = {}
       /\ Cardinality(TimersOf(id, timers')) <= 1]_vars

\* C12: a step in which the handling of a frame of a session fails increments the
\* session's errorCount by exactly one, invokes its onError callback exactly once
\* and leaves its isActive and isRecording flags as they were, so that the
\* following frames are still accepted.
Invocations(cb, id, callbacks) ==
  Cardinality({i \in DOMAIN callbacks : callbacks[i] = Emit(cb, id)})

C12_FrameFailureCountedAndReported ==
  [][\A id \in Known :
       sessions'[id].statistics.errorCount # sessions[id].statistics.errorCount
         => /\ sessions'[id].statistics.errorCount = sessions[id].statistics.errorCount + 1
            /\ Invocations("onError", id, emitted') = 1
            /\ sessions'[id].isActive = sessions[id].isActive
            /\ sessions'[id].isRecording = sessions[id].isRecording]_vars

\* C13: within one session the handler of a frame does not begin before the
\* handler of the previous frame has completed: at most one handler of a session
\* is suspended at an await.
HandlersOf(id) == {h \in Calls(frames) : h.sid = id}

C13_FramesHandledSequentially ==
  \A id \in Known : Cardinality(HandlersOf(id)) <= 1

\* C14: a step of a stopSession call on session b, made while b is active and
\* another session a is Active, leaves a's capture stream, a's audio context, a's
\* pending silence timers and the collaborator's active transcription session as
\* they were.
StopStep(id) ==
  \/ NewStop(id, "api")
  \/ NewStop(id, "timer")
  \/ \E call \in Calls(stops) : call.sid = id /\ CopiesIn(call, stops') < CopiesIn(call, stops)

C14_StopLeavesOtherSession ==
  [][\A a \in Known, b \in Known :
       (a # b /\ Active(a) /\ sessions[b].isActive /\ StopStep(b))
         => /\ streamLive'[a] = streamLive[a]
            /\ ctx'[a] = ctx[a]
            /\ TimersOf(a, timers') = TimersOf(a, timers)
            /\ stt = "active" => stt' = "active"]_vars

\* C15: what session a observes depends only on a's own frames: a's onVADChange
\* callback is invoked exactly when the verdict of a's frame differs from the
\* verdict of a's previous frame, and a step of a frame handler of another session
\* b changes neither a's record (statistics included) nor a's pending timers and
\* invokes none of a's callbacks.
FrameStep(id) ==
  \E h \in Calls(frames) \cup Calls(frames') :
    h.sid = id /\ CopiesIn(h, frames') # CopiesIn(h, frames)

C15_FramesOfOtherSessionUnobserved ==
  [][\A a \in Known :
       /\ Judged(a) =>
            (Invocations("onVADChange", a, emitted') = 1 <=> verdict'[a] # verdict[a])
       /\ \A b \in Known \ {a} :
            (FrameStep(b) /\ ~FrameStep(a))
              => /\ sessions'[a] = sessions[a]
                 /\ TimersOf(a, timers') = TimersOf(a, timers)
                 /\ \A i \in DOMAIN emitted' : emitted'[i].sid # a]_vars

\* C16: a session's errorCount changes only in a step of a handler of one of its
\* own frames, and then by one: the failures of another session's frames never
\* reach it.
C16_ErrorCountOfOwnFramesOnly ==
  [][\A a \in Known :
       sessions'[a].statistics.errorCount # sessions[a].statistics.errorCount
         => /\ FrameStep(a)
            /\ \A b \in Known \ {a} : ~FrameStep(b)
            /\ sessions'[a].statistics.errorCount = sessions[a].statistics.errorCount + 1]_vars

C16_Witness ==
  \E a \in Known, b \in Known :
    /\ a # b
    /\ sessions[b].statistics.errorCount = 1
    /\ sessions[a].statistics.errorCount = 0
    /\ sessions[a].isRecording

\* the handler of h goes on to the transcription collaborator: it awaits the
\* lazily started sub-session (284) or the transcription call (290)
Dispatched(h, next) ==
  \E g \in Calls(next) : g.sid = h.sid /\ g.frame = h.frame /\ g.pc \in {"sttStart", "processAudio"}

\* C17: a frame that passed the DSP stage is dispatched to the transcription
\* collaborator exactly when its verdict is Speech with confidence at or above
\* minConfidence, and a sub-session is started first exactly when none is active.
C17_DispatchIffSpeechAtThreshold ==
  [][\A h \in Calls(frames), isSpeech \in BOOLEAN, conf \in Confidence :
       processSettled(h, TRUE, isSpeech, conf)
         => /\ Dispatched(h, frames') <=> (isSpeech /\ conf \in {"eq", "gt"})
            /\ Dispatched(h, frames')
                 => (stt = "null" <=> \E g \in Calls(frames') : g.frame = h.frame /\ g.pc = "sttStart")]_vars

\* C18: a transcription result below minConfidence leaves the transcripts and
\* errorCount of the session as they were and invokes no onError; a result above
\* it appends one transcript, that of the frame, and invokes onTranscript once.
C18_LowConfidenceResultDropped ==
  [][\A h \in Calls(frames), conf \in Confidence :
       processAudioSettled(h, TRUE, conf)
         => LET before == sessions[h.sid]
                after == sessions'[h.sid] IN
            /\ conf = "lt" => /\ after.transcripts = before.transcripts
                              /\ after.statistics.errorCount = before.statistics.errorCount
                              /\ Invocations("onError", h.sid, emitted') = 0
                              /\ Invocations("onTranscript", h.sid, emitted') = 0
            /\ conf = "gt" => /\ after.transcripts
                                   = Append(before.transcripts, [frame |-> h.frame, conf |-> conf])
                              /\ Invocations("onTranscript", h.sid, emitted') = 1
                              /\ after.statistics.errorCount = before.statistics.errorCount]_vars

C18_Witness ==
  \E id \in Known :
    /\ sessions[id].transcripts = <<[frame |-> 1, conf |-> "gt"]>>
    /\ emitted = <<Emit("onTranscript", id)>>
    /\ sessions[id].statistics.errorCount = 0

\* the transcripts are in the order in which their frames were delivered
InDeliveryOrder(transcripts) ==
  \A i, j \in DOMAIN transcripts : i < j => transcripts[i].frame < transcripts[j].frame

\* C19: the transcripts of a session change only by an append at the end, and
\* they stay in the order in which the frames they come from were delivered.
C19_TranscriptsInDeliveryOrder ==
  [][\A id \in Known :
       LET before == sessions[id].transcripts
           after == sessions'[id].transcripts IN
       /\ \/ after = before
          \/ Len(after) = Len(before) + 1 /\ SubSeq(after, 1, Len(before)) = before
       /\ InDeliveryOrder(after)]_vars

\* C20: no step lowers speakingDuration, silenceDuration, chunksProcessed or
\* errorCount of a session; stated for the steps that end with the session's
\* frames delivered no faster than real time.
C20_CountersNeverDecrease ==
  [][\A id \in Known :
       InRealTime(sessions'[id], clock')
         => LET before == sessions[id].statistics
                after == sessions'[id].statistics IN
            /\ RatLeq(before.speakingDuration, after.speakingDuration)
            /\ RatLeq(before.silenceDuration, after.silenceDuration)
            /\ before.chunksProcessed <= after.chunksProcessed
            /\ before.errorCount <= after.errorCount]_vars

\* C21: whenever the statistics of a session are written, by a handled frame or
\* by finalization, speakingDuration + silenceDuration is at most totalDuration,
\* within one millisecond.
C21_SplitWithinTotalDuration ==
  [][\A id \in Known :
       sessions'[id].statistics # sessions[id].statistics
         => LET after == sessions'[id].statistics IN
            RatLeq(RatAdd(after.speakingDuration, after.silenceDuration),
                   RatInt(after.totalDuration + 1))]_vars

\* the step is a processFrame call of a detector that has judged a frame before
NextFrameStep == fed'.frames = fed.frames + 1 /\ det.lastVADResult # NoResult

\* C22: after a Speech verdict the next verdict is Silence exactly when the voice
\* probability is at most 0.4; after a Silence verdict it is Speech exactly when
\* the probability is at least 0.6; in between the verdict stays as it was.
C22_Hysteresis ==
  [][NextFrameStep
       => LET previous == det.lastVADResult[1].isSpeech
              result == det'.lastVADResult[1] IN
          /\ previous => (~result.isSpeech <=> result.voiceProbability <= 400)
          /\ ~previous => (result.isSpeech <=> result.voiceProbability >= 600)
          /\ (result.voiceProbability > 400 /\ result.voiceProbability < 600)
               => result.isSpeech = previous]_vars

\* the four frames from position i on have the voice probabilities 0.6, 0.55,
\* 0.45 and 0.38, and the detector was in Silence before the first of them
SequenceFromSilence(i) ==
  /\ i + 3 <= Len(results)
  /\ [k \in 1..4 |-> results[i + k - 1].voiceProbability] = <<600, 550, 450, 380>>
  /\ i > 1 => ~results[i - 1].isSpeech

\* C23: a detector in Silence that is fed frames with the voice probabilities
\* 0.6, 0.55, 0.45, 0.38 answers Speech, Speech, Speech, Silence.
C23_HysteresisSequence ==
  \A i \in DOMAIN results :
    SequenceFromSilence(i)
      => [k \in 1..4 |-> results[i + k - 1].isSpeech] = <<TRUE, TRUE, TRUE, FALSE>>

\* the step is a call of the method op that is not processFrame
OtherCallStep(op) == fed'.others = fed.others + 1 /\ returned'.op = op

\* C24: the k-th processFrame call since construction or the last reset returns
\* frameIndex k - 1; calibrate, updateConfig, setSensitivity, setAdaptiveThreshold
\* and getStatistics leave the frame index as it is, and it goes back to 0 by
\* reset only.
C24_FrameIndexCountsFrames ==
  [][/\ \A k \in DOMAIN results' : results'[k].frameIndex = k - 1
     /\ \A op \in {"calibrate", "updateConfig", "setSensitivity", "setAdaptiveThreshold",
                   "getStatistics"} :
          OtherCallStep(op) => det'.frameIndex = det.frameIndex
     /\ det'.frameIndex < det.frameIndex => OtherCallStep("reset") /\ det'.frameIndex = 0
     /\ det'.frameIndex > det.frameIndex
          => fed'.frames = fed.frames + 1 /\ det'.frameIndex = det.frameIndex + 1]_vars

C24_Witness ==
  /\ twin # <<>>
  /\ Len(results) = 2
  /\ returned.op = "calibrate"
  /\ det.frameIndex = 2

\* what a caller can observe of a detector: getCurrentResult 235-237, which is the
\* result of the last processFrame, getState 231-233 and getStatistics 239-263
Observed(d) == <<d.lastVADResult, d.state, Statistics(d)>>

\* C25: from its reset on, a detector and a detector constructed at that moment
\* with the same config, given the same calls, return the same results and have
\* the same getState and getStatistics.
C25_ResetIsFreshDetector == twin # <<>> => Observed(det) = Observed(twin[1])

C25_Witness ==
  /\ twin # <<>>
  /\ fed.frames > Len(results)
  /\ Len(results) >= 2
  /\ det.baselineEnergy # twin[1].baselineEnergy

\* C26: a getStatistics call leaves every field of the detector as it was, so no
\* later result depends on it.
C26_GetStatisticsReadsOnly ==
  [][OtherCallStep("getStatistics") => det' = det /\ twin' = twin]_vars

C26_Witness ==
  /\ returned.op = "getStatistics"
  /\ det.frameIndex >= 2
  /\ Len(det.energyHistory) >= 2
  /\ returned.value = Statistics(det)

\* the last n entries of a sequence, or all of it
LastOf(seq, n) == SubSeq(seq, Len(seq) - Min(Len(seq), n) + 1, Len(seq))

\* C27: the energy history holds at most HistoryLimit entries: the energies of the
\* most recent frames processed since it was last emptied, oldest first.
C27_HistoryHoldsLatestEnergies ==
  /\ Len(det.energyHistory) <= HistoryLimit
  /\ det.energyHistory = LastOf(arrived, HistoryLimit)

C27_Witness ==
  /\ Len(arrived) > HistoryLimit
  /\ Len(det.energyHistory) = HistoryLimit
  /\ det.energyHistory[1] # arrived[1]

AllZero(audioData) == \A i \in DOMAIN audioData : audioData[i] = RatInt(0)
Peak(audioData) == MathMax(Abs(audioData))

\* C28: with a target volume above 0, normalize of a frame that has a nonzero
\* sample returns a frame whose largest absolute sample is the target volume, and
\* normalize of an all-zero frame returns the frame as it was given.
C28_NormalizeScalesPeakToTarget ==
  (out.op = "normalize" /\ RatLess(RatInt(0), ap.config.targetVolume))
    => /\ ~AllZero(out.given) => Peak(out.value) = Num(ap.config.targetVolume)
       /\ AllZero(out.given) => out.value = out.given

C28_Witness ==
  /\ out.op = "normalize"
  /\ ap.config.targetVolume = <<7, 10>>
  /\ out.given = <<<<1, 2>>, <<0, 1>>, <<-1, 1>>>>
  /\ out.value = <<<<7, 20>>, <<0, 1>>, <<-7, 10>>>>

\* the numeric fields of a ProcessedAudio
Numbers(processed) ==
  {processed.duration, processed.volume}
    \cup {processed.quality[metric] : metric \in DOMAIN processed.quality}

\* C29: process of a raw frame of zero bytes returns a frame of no samples, and
\* its duration, its volume and every quality metric are finite numbers.
C29_EmptyFrameHasFiniteMetrics ==
  (out.op = "process" /\ out.given = <<>>)
    => /\ out.value.data = <<>>
       /\ \A x \in Numbers(out.value) : IsFinite(x)

\* a stopSession call of session id has returned in the step into this state
StopReturned(id) == done.op = "stopSession" /\ done.sid = id /\ done.result = "returned"

\* C30: when stopSession returns, the session's totalDuration is the time from
\* its startTime to its endTime, which is the time of the return, and
\* speakingDuration and silenceDuration are totalDuration times the detector's
\* speechRatio and silenceRatio, whatever transcripts the session holds.
C30_FinalStatisticsFromClockAndDetector ==
  \A id \in Known :
    StopReturned(id)
      => LET sess == sessions[id]
             total == sess.statistics.totalDuration
             ratios == getStatistics(vad) IN
         /\ sess.endTime = clock
         /\ total = sess.endTime - sess.startTime
         /\ sess.statistics.speakingDuration = RatMul(RatInt(total), ratios[1])
         /\ sess.statistics.silenceDuration = RatMul(RatInt(total), ratios[2])

C30_Witness ==
  \E id \in Known :
    /\ StopReturned(id)
    /\ sessions[id].statistics.totalDuration > 0
    /\ vad.frameIndex = 2 /\ vad.speechFrames = 1
    /\ sessions[id].transcripts # <<>>
    /\ sessions[id].statistics.speakingDuration
         = Rat(sessions[id].statistics.totalDuration, 2)

\* C31: the step that judges a frame of a session invokes the session's
\* onVADChange once if the frame's verdict differs from the verdict of the
\* session's previous frame, the first frame of a session differing from none,
\* and not at all if the verdicts are equal; no other step invokes it.
C31_VADChangeNotifiedPerSession ==
  [][\A id \in Known :
       /\ (Judged(id) /\ verdict'[id] # verdict[id])
            => Invocations("onVADChange", id, emitted') = 1
       /\ (Judged(id) /\ verdict'[id] = verdict[id])
            => Invocations("onVADChange", id, emitted') = 0
       /\ ~Judged(id) => Invocations("onVADChange", id, emitted') = 0]_vars

\* C32: a calibrate call with a noise sample of energy e, the sample no longer
\* than one window, leaves the configured threshold at exactly 3 * e, this for
\* every e including 0, and leaves the energy history empty.
C32_CalibrateSetsThreeTimesNoise ==
  [][OtherCallStep("calibrate")
       => \E noiseEnergy \in NoiseEnergies :
            /\ calibrateCall(noiseEnergy)
            /\ det'.config.threshold = 3000 * noiseEnergy
            /\ det'.energyHistory = <<>>]_vars

\* the step is a processFrame call of the detector
FrameCallStep == fed'.frames = fed.frames + 1

\* C33: a processFrame call whose frame is classified Speech increases
\* totalSpeechDuration, one whose frame is classified Silence increases
\* totalSilenceDuration, and no step but a reset lowers a duration or a frame count.
C33_DurationsGrowWithEveryFrame ==
  [][/\ FrameCallStep
          => IF det'.lastVADResult[1].isSpeech
               THEN det'.state.totalSpeechDuration > det.state.totalSpeechDuration
               ELSE det'.state.totalSilenceDuration > det.state.totalSilenceDuration
     /\ ~OtherCallStep("reset")
          => /\ det'.state.totalSpeechDuration >= det.state.totalSpeechDuration
             /\ det'.state.totalSilenceDuration >= det.state.totalSilenceDuration
             /\ det'.state.speechFrames >= det.state.speechFrames
             /\ det'.state.silenceFrames >= det.state.silenceFrames]_vars

\* C34: in every reachable state a session that is recording is active.
C34_RecordingImpliesActive ==
  \A id \in Known : sessions[id].isRecording => sessions[id].isActive

\* the manager holds a capture resource: a stream, a live track or an open context
HoldsCapture ==
  \/ mediaStream # None
  \/ activeAudioContext # None
  \/ \E id \in SessionIds : streamLive[id] \/ ctx[id] = "running"

\* C35: when a startSession call has ended because the transcription collaborator
\* rejected, and no session is active and no start is in progress, the manager
\* holds no capture resource.
C35_RejectedStartReleasesCapture ==
  (/\ done.op = "startSession" /\ done.result = "threw" /\ done.at = "stt"
   /\ \A id \in Known : ~sessions[id].isActive
   /\ starts = EmptyBag)
    => ~HoldsCapture

\* C36: the step that judges the first frame of an active session with autoStop
\* Silence arms a silence timer for the session, whatever the sessions of the
\* manager handled before.
C36_FirstSilenceArmsTimer ==
  [][\A id \in Known :
       (/\ Judged(id) /\ verdict[id] = "null" /\ verdict'[id] = "silence"
        /\ sessions[id].autoStop /\ sessions[id].isActive)
         => TimersOf(id, timers') # {}]_vars

\* C37: two detectors whose configs differ in threshold and adaptiveThreshold at
\* most and that got the same calls, calibrate among them, returned the same
\* isSpeech and the same confidence for the last frame, and so for every frame.
C37_ResultIgnoresThreshold ==
  peer # <<>>
    => LET mine == det.lastVADResult
           theirs == peer[1].lastVADResult IN
       /\ mine = NoResult <=> theirs = NoResult
       /\ mine # NoResult
            => /\ mine[1].isSpeech = theirs[1].isSpeech
               /\ mine[1].confidence = theirs[1].confidence

C37_Witness ==
  /\ peer # <<>>
  /\ returned.op = "processFrame"
  /\ det.lastVADResult[1].confidence > 0
  /\ Len(det.energyHistory) >= 10
  /\ det.config.threshold # peer[1].config.threshold
  /\ det.config.adaptiveThreshold /\ ~peer[1].config.adaptiveThreshold
  /\ det.baselineEnergy # peer[1].baselineEnergy

\* C38: in every state of a detector, speechFrames + silenceFrames is frameIndex,
\* the number of frames processed since construction or the last reset, and the
\* state's isSpeech is the isSpeech of the most recent result, if there is one.
C38_StateAgreesWithResults ==
  /\ det.state.speechFrames + det.state.silenceFrames = det.frameIndex
  /\ det.frameIndex = Len(results)
  /\ det.lastVADResult # NoResult => det.state.isSpeech = det.lastVADResult[1].isSpeech

C38_Witness ==
  /\ det.state.speechFrames >= 2 /\ det.state.silenceFrames >= 1
  /\ ~det.state.isSpeech
  /\ returned.op = "processFrame"

\* C39: an onaudioprocess event of a session in which pauseSession took effect
\* and resumeSession has not since changes neither the session's record
\* (audioChunks, transcripts, statistics) nor the detector's counters and starts
\* no handler; pauseSession and resumeSession of a session that is not active
\* change no session.
C39_PausedFramesDiscarded ==
  [][\A id \in Known :
       /\ (paused[id] /\ onaudioprocess(id))
            => /\ sessions'[id] = sessions[id]
               /\ vad' = vad
               /\ frames' = frames
       /\ (~sessions[id].isActive /\ (pauseSession(id) \/ resumeSession(id)))
            => sessions' = sessions]_vars

====
